---- MODULE Spec2Model ----
(***************************************************************************)
(* Botoferma: account service with an acquire/release lock on user rows.   *)
(*                                                                         *)
(* The model follows app/users/{router,crud,auth,utils,models}.py.  Every  *)
(* HTTP request runs in its own database session (app/database.py          *)
(* get_session, one session per request, shared by get_current_user and    *)
(* the endpoint).  A handler is cut into steps at the statements it sends  *)
(* to the database; the Python code between two awaits runs without        *)
(* interruption and belongs to the step of the statement before it.        *)
(*                                                                         *)
(* The store is PostgreSQL at its default isolation level (READ COMMITTED;  *)
(* create_async_engine is called without isolation_level): every           *)
(* statement sees the rows committed so far, and the UPDATE or INSERT      *)
(* flushed by session.commit() becomes visible to the other sessions at    *)
(* the COMMIT, so flush and COMMIT are one step.                           *)
(*                                                                         *)
(* A session keeps an identity map: a row already loaded in the session is *)
(* not overwritten by a later SELECT, only by session.refresh().  At flush *)
(* the unit of work emits an UPDATE only for a column whose value differs  *)
(* from the value that was loaded.                                         *)
(***************************************************************************)
EXTENDS Integers, Sequences, FiniteSets, TLC

\* ---------------------------------------------------------------- bounds
MaxTime == 2          \* the clock runs over 1..MaxTime

\* locktime IS NULL (models.py: nullable=True, default=None)
NULL == 0

Reqs == {"r1", "r2"}                      \* requests in flight at the same time
Ids == {"u1", "u2"}                       \* values uuid4() returns to the server
FakeId == "u0"                            \* a uuid made up by a client
AllIds == Ids \cup {FakeId}
Logins == {"a@x.com", "b@x.com"}
Passwords == {"password123"}
ProjectIds == {"P1"}
Environment == {"prod", "preprod", "stage"}
DomainType == {"canary", "regular"}
RegEnvs == {"prod"}                       \* values the modelled clients send
RegDomains == {"regular"}
Times == 1..MaxTime

VARIABLES
    users,      \* table "users": the committed rows, keyed by id
    now,        \* the clock read by datetime.utcnow() and func.now()
    pc,         \* pc[r]: the statement request r executes next
    req,        \* req[r]: the operation and its body
    sess,       \* sess[r][id]: identity map of r's session, <<>> or <<row>>
    pend,       \* pend[r]: what the session flushes at commit, <<>> or <<stmt>>
    resp,       \* resp[r]: the HTTP response of r
    wrote,      \* history: what r's commit wrote: "no" (nothing), "insert",
                \* or an UPDATE of a row that was "free" / "locked"
    globals,    \* the namespace of module app.database: the names bound by
                \* its `global` statements and their values
    app         \* the server process: how far lifespan got, what it printed,
                \* whether get_session is overridden, and, as history, how
                \* many engines and session factories were created

vars == <<users, now, pc, req, sess, pend, resp, wrote, globals, app>>

\* ------------------------------------------------------------ the store
Exists(id) == id \in DOMAIN users

\* select(User).where(User.id == user_id) ... scalar_one_or_none()
SelectById(id) == IF Exists(id) THEN <<users[id]>> ELSE <<>>

\* select(User).where(User.login == login) ... scalar_one_or_none()
SelectByLogin(login) ==
    LET hit == {i \in DOMAIN users : users[i].login = login}
    IN  IF hit = {} THEN <<>> ELSE <<users[CHOOSE i \in hit : TRUE]>>

\* the UNIQUE index on users.login
LoginTaken(login) == \E i \in DOMAIN users : users[i].login = login

\* passlib bcrypt: the hash is not the password, verify recomputes it
hash_password(password) == <<"$2b$", password>>
verify_password(plain_password, hashed_password) ==
    hashed_password = hash_password(plain_password)

\* faulty variant of UserResponse: the schema also has the password column
UserResponse_WithPassword(u) ==
    [id |-> u.id, created_at |-> u.created_at, login |-> u.login,
     password |-> u.password,
     project_id |-> u.project_id, env |-> u.env, domain |-> u.domain,
     locktime |-> u.locktime]

\* UserResponse(from_attributes): the row without its password
UserResponse(u) ==
    [id |-> u.id, created_at |-> u.created_at, login |-> u.login,
     project_id |-> u.project_id, env |-> u.env, domain |-> u.domain,
     locktime |-> u.locktime]

\* the application as the request handlers below see it: started, and
\* get_session yielding a session of the store (the provider a deployment
\* or app.dependency_overrides puts in place, as the test client does)
Serving == [lifespan |-> "running", log |-> <<>>,
            dependency_overrides |-> TRUE, engines |-> 0, session_makers |-> 0]

NoReq == [op |-> "none"]
NoResp == [status |-> 0]
EmptySession == [i \in AllIds |-> <<>>]

\* what a SELECT of row-or-nothing `found` leaves in the identity map for id:
\* an object already loaded keeps its attributes
Load(s, id, found) ==
    IF found = <<>> \/ s[id] # <<>> THEN s ELSE [s EXCEPT ![id] = found]

Init ==
    /\ users = << >>
    /\ now = 1
    /\ pc = [r \in Reqs |-> "idle"]
    /\ req = [r \in Reqs |-> NoReq]
    /\ sess = [r \in Reqs |-> EmptySession]
    /\ pend = [r \in Reqs |-> <<>>]
    /\ resp = [r \in Reqs |-> NoResp]
    /\ wrote = [r \in Reqs |-> "no"]
    /\ globals = << >>
    /\ app = Serving

\* faulty variant of Tick: a lock lapses when the minute it was taken in is
\* over
Tick_LocksLapse ==
    /\ now < MaxTime
    /\ now' = now + 1
    /\ users' = [i \in DOMAIN users |->
                    [users[i] EXCEPT !.locktime = NULL]]
    /\ UNCHANGED <<pc, req, sess, pend, resp, wrote, globals, app>>

Tick ==
    /\ now < MaxTime
    /\ now' = now + 1
    /\ UNCHANGED <<users, pc, req, sess, pend, resp, wrote, globals, app>>

\* ------------------------------------------------------------ auth gate
NoSub == "<no sub>"
Token(sub, exp, sig) == [sub |-> sub, exp |-> exp, sig |-> sig]
\* EmailStr: the strings of the model that are e-mail addresses, and one
\* that is not
EmailStr == Logins
NotEmail == "nobody"

\* the bearer tokens the modelled clients present: for every login one that
\* stays valid, and one expiring early, one with an altered signature and
\* one without "sub"
Tokens ==
    {Token(l, MaxTime, TRUE) : l \in Logins}
        \cup {Token("a@x.com", 1, TRUE), Token("a@x.com", MaxTime, FALSE),
              Token(NoSub, MaxTime, TRUE)}

\* a token signed with SECRET_KEY by someone else than login: its "sub" is
\* no e-mail address
ForgedTokens == {Token(NotEmail, MaxTime, TRUE)}

\* an exception that no handler catches: the server answers 500
ValidationError == <<[raised |-> "ValidationError"]>>
internal_server_error == [status |-> 500, detail |-> "Internal Server Error"]

\* jwt.decode + payload.get("sub"): <<>> for a bad signature, an expired
\* token or a payload without "sub", else TokenData(login=login), which
\* raises ValidationError (no JWTError) when login is no e-mail address
decode_access_token(token) ==
    IF ~token.sig \/ token.exp < now THEN <<>>
    ELSE IF token.sub = NoSub THEN <<>>
    ELSE IF token.sub \notin EmailStr THEN ValidationError
    ELSE <<[login |-> token.sub]>>

credentials_exception ==
    [status |-> 401, detail |-> "Could not validate credentials"]

\* faulty variant of get_current_user: a valid token resolves to some
\* account, not to the one of its subject
get_current_user_AnyAccount(token) ==
    LET token_data == decode_access_token(token)
    IN  IF token_data = <<>> \/ DOMAIN users = {} THEN <<>>
        ELSE IF token_data = ValidationError THEN ValidationError
        ELSE <<users[CHOOSE i \in DOMAIN users : TRUE]>>

\* get_current_user: <<>> where the code raises credentials_exception,
\* ValidationError where decode_access_token raised it, else the row of the
\* token's subject
get_current_user(token) ==
    LET token_data == decode_access_token(token)
    IN  IF token_data = <<>> THEN <<>>
        ELSE IF token_data = ValidationError THEN ValidationError
        ELSE SelectByLogin(token_data[1].login)

\* security = HTTPBearer(): a request without an Authorization header is
\* refused before get_current_user runs
NoCredentials == [scheme |-> "none"]
not_authenticated == [status |-> 403, detail |-> "Not authenticated"]

\* what clients put in the Authorization header: nothing, one of Tokens or
\* ForgedTokens, or the token of a login answer they hold
Issued ==
    {resp[q].body.access_token :
        q \in {x \in Reqs : /\ pc[x] = "done" /\ req[x].op = "login"
                            /\ resp[x].status = 200}}
Credentials == Tokens \cup ForgedTokens \cup Issued \cup {NoCredentials}

\* a client names an account by an id the server gave out, or by a made-up
\* uuid, which no account ever gets (uuid4 values do not repeat)
Nameable(id) == id \in DOMAIN users \/ id = FakeId

\* a protected request arrives: the dependency get_current_user runs first,
\* in the request's session, and leaves the caller's row in the identity map.
\* sess keeps the caller's row when the handler looks that id up again; a
\* row the handler never reads again is left out.
StartProtected(r, token, request, next) ==
    /\ pc[r] = "idle"
    /\ Nameable(request.user_id)
    /\ LET current_user == get_current_user(token)
       IN  IF token = NoCredentials
           THEN /\ pc' = [pc EXCEPT ![r] = "done"]
                /\ resp' = [resp EXCEPT ![r] = not_authenticated]
                /\ sess' = sess
           ELSE IF current_user = <<>>
           THEN /\ pc' = [pc EXCEPT ![r] = "done"]
                /\ resp' = [resp EXCEPT ![r] = credentials_exception]
                /\ sess' = sess
           ELSE IF current_user = ValidationError
           THEN /\ pc' = [pc EXCEPT ![r] = "done"]
                /\ resp' = [resp EXCEPT ![r] = internal_server_error]
                /\ sess' = sess
           ELSE /\ pc' = [pc EXCEPT ![r] = next]
                /\ resp' = resp
                /\ sess' = [sess EXCEPT ![r] =
                       IF current_user[1].id = request.user_id
                       THEN Load(@, current_user[1].id, current_user) ELSE @]
    /\ req' = [req EXCEPT ![r] = request]
    /\ UNCHANGED <<users, now, pend, wrote, globals, app>>

\* ------------------------------------------------ session.commit(): flush
\* faulty variant of Flush: the UPDATE has no WHERE clause
Flush_NoWhere(table, stmts) ==
    IF stmts = <<>> THEN table
    ELSE LET st == stmts[1]
         IN  IF st.op = "update"
             THEN [i \in DOMAIN table |-> [table[i] EXCEPT !.locktime = st.locktime]]
             ELSE (st.row.id :> st.row) @@ table

\* the pending statement applied to the table
Flush(table, stmts) ==
    IF stmts = <<>> THEN table
    ELSE LET st == stmts[1]
         IN  IF st.op = "update"
             THEN [table EXCEPT ![st.id].locktime = st.locktime]
             ELSE (st.row.id :> st.row) @@ table

\* history: what the flush of stmts replaces in the table as it is now
Replaced(stmts) ==
    IF stmts = <<>> THEN "no"
    ELSE IF stmts[1].op = "insert" THEN "insert"
    ELSE IF users[stmts[1].id].locktime = NULL THEN "free" ELSE "locked"

\* ---------------------------------------------------- POST /users/acquire
StartAcquire(r, token, id) ==
    StartProtected(r, token, [op |-> "acquire", user_id |-> id], "acq_get")

\* crud.acquire_lock up to the commit: get_user_by_id, the two early
\* returns, user.locktime = datetime.utcnow(), session.add(user)
AcqGet(r) ==
    /\ pc[r] = "acq_get"
    /\ LET id == req[r].user_id
           s1 == Load(sess[r], id, SelectById(id))
       IN  IF s1[id] = <<>> \/ s1[id][1].locktime # NULL
           THEN /\ pc' = [pc EXCEPT ![r] = "acq_recheck"]
                /\ sess' = [sess EXCEPT ![r] = s1]
                /\ pend' = pend
           ELSE /\ pc' = [pc EXCEPT ![r] = "acq_commit"]
                /\ sess' = [sess EXCEPT ![r] =
                             [s1 EXCEPT ![id] = <<[s1[id][1] EXCEPT !.locktime = now]>>]]
                /\ pend' = [pend EXCEPT ![r] =
                             <<[op |-> "update", id |-> id, locktime |-> now]>>]
    /\ UNCHANGED <<users, now, req, resp, wrote, globals, app>>

\* await session.commit(): UPDATE users SET locktime = ? WHERE id = ?; COMMIT
AcqCommit(r) ==
    /\ pc[r] = "acq_commit"
    /\ users' = Flush(users, pend[r])
    /\ pend' = [pend EXCEPT ![r] = <<>>]
    /\ pc' = [pc EXCEPT ![r] = "acq_refresh"]
    /\ wrote' = [wrote EXCEPT ![r] = Replaced(pend[r])]
    /\ UNCHANGED <<now, req, sess, resp, globals, app>>

\* await session.refresh(user); return user -> 200 + UserResponse
Refresh(r) ==
    /\ pc[r] \in {"acq_refresh", "rel_refresh", "reg_refresh"}
    /\ LET id == IF req[r].op = "register" THEN req[r].id ELSE req[r].user_id
           row == SelectById(id)
       IN  /\ sess' = [sess EXCEPT ![r][id] = row]
           /\ resp' = [resp EXCEPT ![r] =
                  [status |-> IF req[r].op = "register" THEN 201 ELSE 200,
                   body |-> UserResponse(row[1])]]
    /\ pc' = [pc EXCEPT ![r] = "done"]
    /\ UNCHANGED <<users, now, req, pend, wrote, globals, app>>

\* faulty variant of AcqRecheck: an acquire that finds the account LOCKED
\* stamps it again before answering 423
AcqRecheck_Restamps(r) ==
    /\ pc[r] = "acq_recheck"
    /\ LET id == req[r].user_id
           existing_user == SelectById(id)
       IN  /\ sess' = [sess EXCEPT ![r] = Load(@, id, existing_user)]
           /\ users' = IF existing_user = <<>> THEN users
                       ELSE [users EXCEPT ![id].locktime = now]
           /\ resp' = [resp EXCEPT ![r] =
                  IF existing_user = <<>>
                  THEN [status |-> 404, detail |-> "User not found"]
                  ELSE [status |-> 423,
                        detail |-> "User is already locked by another test"]]
    /\ pc' = [pc EXCEPT ![r] = "done"]
    /\ UNCHANGED <<now, req, pend, wrote, globals, app>>

\* router.acquire_user_lock after acquire_lock returned None:
\* get_user_by_id again, then 404 or 423
AcqRecheck(r) ==
    /\ pc[r] = "acq_recheck"
    /\ LET id == req[r].user_id
           existing_user == SelectById(id)
       IN  /\ sess' = [sess EXCEPT ![r] = Load(@, id, existing_user)]
           /\ resp' = [resp EXCEPT ![r] =
                  IF existing_user = <<>>
                  THEN [status |-> 404, detail |-> "User not found"]
                  ELSE [status |-> 423,
                        detail |-> "User is already locked by another test"]]
    /\ pc' = [pc EXCEPT ![r] = "done"]
    /\ UNCHANGED <<users, now, req, pend, wrote, globals, app>>

\* ---------------------------------------------------- POST /users/release
\* faulty variant of StartRelease: only the account itself may release it,
\* any other caller is refused as one without credentials
StartRelease_OwnAccountOnly(r, token, id) ==
    StartProtected(r,
        IF /\ token # NoCredentials
           /\ get_current_user(token) # <<>>
           /\ get_current_user(token) # ValidationError
           /\ get_current_user(token)[1].id # id
        THEN NoCredentials ELSE token,
        [op |-> "release", user_id |-> id], "rel_get")

StartRelease(r, token, id) ==
    StartProtected(r, token, [op |-> "release", user_id |-> id], "rel_get")

\* the statement the unit of work holds after user.locktime = None:
\* an UPDATE only when the loaded value was not already None
ReleaseStmt(id, loaded) ==
    IF loaded # NULL
    THEN <<[op |-> "update", id |-> id, locktime |-> NULL]>>
    ELSE <<>>

\* faulty variant of RelGet: release_lock returns None for a FREE account,
\* as acquire_lock does for a LOCKED one
RelGet_NoneWhenFree(r) ==
    /\ pc[r] = "rel_get"
    /\ LET id == req[r].user_id
           s1 == Load(sess[r], id, SelectById(id))
       IN  IF s1[id] = <<>> \/ s1[id][1].locktime = NULL
           THEN /\ pc' = [pc EXCEPT ![r] = "done"]
                /\ resp' = [resp EXCEPT ![r] =
                             [status |-> 404, detail |-> "User not found"]]
                /\ sess' = [sess EXCEPT ![r] = s1]
                /\ pend' = pend
           ELSE /\ pc' = [pc EXCEPT ![r] = "rel_commit"]
                /\ resp' = resp
                /\ sess' = [sess EXCEPT ![r] =
                             [s1 EXCEPT ![id] = <<[s1[id][1] EXCEPT !.locktime = NULL]>>]]
                /\ pend' = [pend EXCEPT ![r] = ReleaseStmt(id, s1[id][1].locktime)]
    /\ UNCHANGED <<users, now, req, wrote, globals, app>>

\* crud.release_lock up to the commit, and the router's 404
RelGet(r) ==
    /\ pc[r] = "rel_get"
    /\ LET id == req[r].user_id
           s1 == Load(sess[r], id, SelectById(id))
       IN  IF s1[id] = <<>>
           THEN /\ pc' = [pc EXCEPT ![r] = "done"]
                /\ resp' = [resp EXCEPT ![r] =
                             [status |-> 404, detail |-> "User not found"]]
                /\ sess' = [sess EXCEPT ![r] = s1]
                /\ pend' = pend
           ELSE /\ pc' = [pc EXCEPT ![r] = "rel_commit"]
                /\ resp' = resp
                /\ sess' = [sess EXCEPT ![r] =
                             [s1 EXCEPT ![id] = <<[s1[id][1] EXCEPT !.locktime = NULL]>>]]
                /\ pend' = [pend EXCEPT ![r] = ReleaseStmt(id, s1[id][1].locktime)]
    /\ UNCHANGED <<users, now, req, wrote, globals, app>>

\* faulty variant of RelCommit: the transaction is rolled back
RelCommit_RolledBack(r) ==
    /\ pc[r] = "rel_commit"
    /\ users' = users
    /\ wrote' = [wrote EXCEPT ![r] = "no"]
    /\ pend' = [pend EXCEPT ![r] = <<>>]
    /\ pc' = [pc EXCEPT ![r] = "rel_refresh"]
    /\ UNCHANGED <<now, req, sess, resp, globals, app>>

\* await session.commit() of release_lock
RelCommit(r) ==
    /\ pc[r] = "rel_commit"
    /\ users' = Flush(users, pend[r])
    /\ wrote' = [wrote EXCEPT ![r] = Replaced(pend[r])]
    /\ pend' = [pend EXCEPT ![r] = <<>>]
    /\ pc' = [pc EXCEPT ![r] = "rel_refresh"]
    /\ UNCHANGED <<now, req, sess, resp, globals, app>>

\* ------------------------------------------------------- POST /register
RegData == [login : Logins, password : Passwords, project_id : ProjectIds,
            env : RegEnvs, domain : RegDomains]

\* what clients post to /register: the well-formed RegData and, for one
\* login, a body with one defect each
RegInputs ==
    RegData \cup
    {[login |-> NotEmail, password |-> "password123", project_id |-> "P1",
      env |-> "prod", domain |-> "regular"],
     [login |-> "a@x.com", password |-> "short", project_id |-> "P1",
      env |-> "prod", domain |-> "regular"],
     [login |-> "a@x.com", password |-> "password123", project_id |-> "P1",
      env |-> "dev", domain |-> "regular"],
     [login |-> "a@x.com", password |-> "password123", project_id |-> "P1",
      env |-> "prod", domain |-> "beta"]}

\* StringConstraints(min_length=8)
min_length == 8

\* faulty variant of UserCreate: a schema of plain strings
UserCreate_Unvalidated(user_data) == TRUE

\* UserCreate: does the body validate (EmailStr, min_length, the two Enums)
UserCreate(user_data) ==
    /\ user_data.login \in EmailStr
    /\ Len(user_data.password) >= min_length
    /\ user_data.env \in Environment
    /\ user_data.domain \in DomainType

\* FastAPI's answer to a body that does not validate; register_user is not
\* called
RequestValidationError(r, user_data) ==
    /\ pc[r] = "idle"
    /\ ~UserCreate(user_data)
    /\ req' = [req EXCEPT ![r] = [op |-> "register", data |-> user_data]]
    /\ resp' = [resp EXCEPT ![r] =
                  [status |-> 422, detail |-> "Unprocessable Entity"]]
    /\ pc' = [pc EXCEPT ![r] = "done"]
    /\ UNCHANGED <<users, now, sess, pend, wrote, globals, app>>

\* ids of the registrations in flight (uuid4 returns a value used nowhere)
Reserved ==
    {req[q].id : q \in {x \in Reqs : /\ req[x].op = "register"
                                     /\ "id" \in DOMAIN req[x]}}

\* faulty variant of StartRegister: the locktime column defaults to the
\* time of creation instead of None
StartRegister_BornLocked(r, user_data, id) ==
    /\ pc[r] = "idle"
    /\ UserCreate(user_data)
    /\ id \notin DOMAIN users \cup Reserved
    /\ req' = [req EXCEPT ![r] = [op |-> "register", data |-> user_data, id |-> id]]
    /\ pend' = [pend EXCEPT ![r] =
          <<[op |-> "insert",
             row |-> [id |-> id, created_at |-> NULL, login |-> user_data.login,
                      password |-> hash_password(user_data.password),
                      project_id |-> user_data.project_id,
                      env |-> user_data.env, domain |-> user_data.domain,
                      locktime |-> now]]>>]
    /\ pc' = [pc EXCEPT ![r] = "reg_commit"]
    /\ UNCHANGED <<users, now, sess, resp, wrote, globals, app>>

\* register_user for a body that validates, up to the commit: hash_password,
\* User(...), session.add.
\* id is the value uuid4() returns for this row at flush.
StartRegister(r, user_data, id) ==
    /\ pc[r] = "idle"
    /\ UserCreate(user_data)
    /\ id \notin DOMAIN users \cup Reserved
    /\ req' = [req EXCEPT ![r] = [op |-> "register", data |-> user_data, id |-> id]]
    /\ pend' = [pend EXCEPT ![r] =
          <<[op |-> "insert",
             row |-> [id |-> id, created_at |-> NULL, login |-> user_data.login,
                      password |-> hash_password(user_data.password),
                      project_id |-> user_data.project_id,
                      env |-> user_data.env, domain |-> user_data.domain,
                      locktime |-> NULL]]>>]
    /\ pc' = [pc EXCEPT ![r] = "reg_commit"]
    /\ UNCHANGED <<users, now, sess, resp, wrote, globals, app>>

\* faulty variant of IntegrityError: users.login without unique=True
IntegrityError_NoUniqueIndex(stmts) == FALSE

\* the INSERT violates the UNIQUE index on login
IntegrityError(stmts) == LoginTaken(stmts[1].row.login)

\* faulty variant of RegCommit: register_user does not catch IntegrityError,
\* the client gets the generic 500
RegCommit_Uncaught(r) ==
    /\ pc[r] = "reg_commit"
    /\ IF LoginTaken(pend[r][1].row.login)
       THEN /\ users' = users
            /\ resp' = [resp EXCEPT ![r] =
                   internal_server_error]
            /\ pc' = [pc EXCEPT ![r] = "done"]
            /\ wrote' = wrote
       ELSE /\ users' = (pend[r][1].row.id :>
                            [pend[r][1].row EXCEPT !.created_at = now]) @@ users
            /\ resp' = resp
            /\ pc' = [pc EXCEPT ![r] = "reg_refresh"]
            /\ wrote' = [wrote EXCEPT ![r] = "insert"]
    /\ pend' = [pend EXCEPT ![r] = <<>>]
    /\ UNCHANGED <<now, req, sess, globals, app>>

\* await session.commit() of create_user: INSERT (created_at = now()),
\* or IntegrityError, which register_user turns into 400
RegCommit(r) ==
    /\ pc[r] = "reg_commit"
    /\ IF IntegrityError(pend[r])
       THEN /\ users' = users
            /\ resp' = [resp EXCEPT ![r] =
                   [status |-> 400, detail |-> "User with this email already exists"]]
            /\ pc' = [pc EXCEPT ![r] = "done"]
            /\ wrote' = wrote
       ELSE /\ users' = Flush(users,
                   <<[pend[r][1] EXCEPT !.row.created_at = now]>>)
            /\ resp' = resp
            /\ pc' = [pc EXCEPT ![r] = "reg_refresh"]
            /\ wrote' = [wrote EXCEPT ![r] = Replaced(pend[r])]
    /\ pend' = [pend EXCEPT ![r] = <<>>]
    /\ UNCHANGED <<now, req, sess, globals, app>>

\* ------------------------------------------------------- POST /login
\* settings.ACCESS_TOKEN_EXPIRE_MINUTES; the clock counts minutes
ACCESS_TOKEN_EXPIRE_MINUTES == 30

\* Optional[timedelta]: <<>> is None, <<d>> a timedelta of d minutes
None == <<>>

\* create_access_token: `if expires_delta:` takes the override when it is
\* truthy (None and timedelta(0) are not), else the configured minutes
create_access_token(data, expires_delta) ==
    LET expire == IF expires_delta # None /\ expires_delta[1] # 0
                  THEN now + expires_delta[1]
                  ELSE now + ACCESS_TOKEN_EXPIRE_MINUTES
    IN  Token(data.sub, expire, TRUE)

\* faulty variant of authenticate_user: the password is not verified
authenticate_user_NoVerify(login, password) == SelectByLogin(login)

\* authenticate_user: <<>> where the code returns None, else the row
authenticate_user(login, password) ==
    LET user == SelectByLogin(login)
    IN  IF user = <<>> THEN <<>>
        ELSE IF ~verify_password(password, user[1].password) THEN <<>>
        ELSE user

\* the passwords clients try at login: the registered one and a wrong one
LoginPasswords == Passwords \cup {"wrongpassword"}
UserLogin == [login : Logins, password : LoginPasswords]

\* faulty variant of login: a login without account gets its own answer
login_TellsUnknown(r, user_data) ==
    /\ pc[r] = "idle"
    /\ LET user == authenticate_user(user_data.login, user_data.password)
       IN  resp' = [resp EXCEPT ![r] =
              IF SelectByLogin(user_data.login) = <<>>
              THEN [status |-> 404, detail |-> "User not found"]
              ELSE IF user = <<>>
              THEN [status |-> 401, detail |-> "Incorrect email or password",
                    headers |-> <<"WWW-Authenticate", "Bearer">>]
              ELSE [status |-> 200,
                    body |-> [access_token |->
                                 create_access_token([sub |-> user[1].login], None),
                              token_type |-> "bearer"]]]
    /\ req' = [req EXCEPT ![r] = [op |-> "login", data |-> user_data]]
    /\ pc' = [pc EXCEPT ![r] = "done"]
    /\ UNCHANGED <<users, now, sess, pend, wrote, globals, app>>

\* router.login: authenticate_user (one SELECT), then 401 or the Token
login(r, user_data) ==
    /\ pc[r] = "idle"
    /\ LET user == authenticate_user(user_data.login, user_data.password)
       IN  resp' = [resp EXCEPT ![r] =
              IF user = <<>>
              THEN [status |-> 401, detail |-> "Incorrect email or password",
                    headers |-> <<"WWW-Authenticate", "Bearer">>]
              ELSE [status |-> 200,
                    body |-> [access_token |->
                                 create_access_token([sub |-> user[1].login], None),
                              token_type |-> "bearer"]]]
    /\ req' = [req EXCEPT ![r] = [op |-> "login", data |-> user_data]]
    /\ pc' = [pc EXCEPT ![r] = "done"]
    /\ UNCHANGED <<users, now, sess, pend, wrote, globals, app>>

\* ------------------------------------------------------- GET /users/me
\* faulty variant of get_current_user_info: asking for the own account
\* frees it
get_current_user_info_Unlocks(r, token) ==
    /\ pc[r] = "idle"
    /\ resp' = [resp EXCEPT ![r] =
          IF token = NoCredentials THEN not_authenticated
          ELSE IF get_current_user(token) = <<>> THEN credentials_exception
          ELSE IF get_current_user(token) = ValidationError
          THEN internal_server_error
          ELSE [status |-> 200,
                body |-> UserResponse(get_current_user(token)[1])]]
    /\ users' = IF \/ token = NoCredentials
                   \/ get_current_user(token) \in {<<>>, ValidationError}
                THEN users
                ELSE [users EXCEPT
                         ![get_current_user(token)[1].id].locktime = NULL]
    /\ req' = [req EXCEPT ![r] = [op |-> "me", token |-> token]]
    /\ pc' = [pc EXCEPT ![r] = "done"]
    /\ UNCHANGED <<now, sess, pend, wrote, globals, app>>

\* get_current_user_info: the dependency's row is the answer
get_current_user_info(r, token) ==
    /\ pc[r] = "idle"
    /\ resp' = [resp EXCEPT ![r] =
          IF token = NoCredentials THEN not_authenticated
          ELSE IF get_current_user(token) = <<>> THEN credentials_exception
          ELSE IF get_current_user(token) = ValidationError
          THEN internal_server_error
          ELSE [status |-> 200,
                body |-> UserResponse(get_current_user(token)[1])]]
    /\ req' = [req EXCEPT ![r] = [op |-> "me", token |-> token]]
    /\ pc' = [pc EXCEPT ![r] = "done"]
    /\ UNCHANGED <<users, now, sess, pend, wrote, globals, app>>

\* ---------------------------------------------------------- GET /users
\* the dependency get_current_user of get_users: its SELECT leaves the
\* caller's row in the identity map of the request's session
StartList(r, token) ==
    /\ pc[r] = "idle"
    /\ LET current_user == get_current_user(token)
       IN  IF token = NoCredentials
           THEN /\ pc' = [pc EXCEPT ![r] = "done"]
                /\ resp' = [resp EXCEPT ![r] = not_authenticated]
                /\ sess' = sess
           ELSE IF current_user = <<>>
           THEN /\ pc' = [pc EXCEPT ![r] = "done"]
                /\ resp' = [resp EXCEPT ![r] = credentials_exception]
                /\ sess' = sess
           ELSE IF current_user = ValidationError
           THEN /\ pc' = [pc EXCEPT ![r] = "done"]
                /\ resp' = [resp EXCEPT ![r] = internal_server_error]
                /\ sess' = sess
           ELSE /\ pc' = [pc EXCEPT ![r] = "list_all"]
                /\ resp' = resp
                /\ sess' = [sess EXCEPT ![r] =
                              Load(@, current_user[1].id, current_user)]
    /\ req' = [req EXCEPT ![r] = [op |-> "list"]]
    /\ UNCHANGED <<users, now, pend, wrote, globals, app>>

\* the elements of a finite set in some order, each once
RECURSIVE SeqOf(_)
SeqOf(S) ==
    IF S = {} THEN <<>>
    ELSE LET x == CHOOSE y \in S : TRUE IN <<x>> \o SeqOf(S \ {x})

\* faulty variant of get_all_users: scalars().first() instead of .all()
get_all_users_FirstOnly(s) ==
    LET row(i) == IF s[i] # <<>> THEN s[i][1] ELSE users[i]
        ids == SeqOf(DOMAIN users)
    IN  [k \in 1..(IF Len(ids) > 1 THEN 1 ELSE Len(ids)) |-> row(ids[k])]

\* crud.get_all_users: select(User) ... scalars().all(); a row whose object
\* the session already holds comes back as that object
get_all_users(s) ==
    LET row(i) == IF s[i] # <<>> THEN s[i][1] ELSE users[i]
        ids == SeqOf(DOMAIN users)
    IN  [k \in 1..Len(ids) |-> row(ids[k])]

\* router.get_users: the List[UserResponse] of get_all_users
get_users(r) ==
    /\ pc[r] = "list_all"
    /\ LET all == get_all_users(sess[r])
       IN  resp' = [resp EXCEPT ![r] =
              [status |-> 200,
               body |-> [k \in 1..Len(all) |-> UserResponse(all[k])]]]
    /\ pc' = [pc EXCEPT ![r] = "done"]
    /\ UNCHANGED <<users, now, req, sess, pend, wrote, globals, app>>

\* the response is sent and the session closed
Finish(r) ==
    /\ pc[r] = "done"
    /\ pc' = [pc EXCEPT ![r] = "idle"]
    /\ req' = [req EXCEPT ![r] = NoReq]
    /\ sess' = [sess EXCEPT ![r] = EmptySession]
    /\ resp' = [resp EXCEPT ![r] = NoResp]
    /\ wrote' = [wrote EXCEPT ![r] = "no"]
    /\ UNCHANGED <<users, now, pend, globals, app>>

\* the lock protocol: registration, acquire and release under a running
\* clock
Next ==
    \/ Tick
    \/ \E r \in Reqs, user_data \in RegData, id \in Ids : StartRegister(r, user_data, id)
    \/ \E r \in Reqs : RegCommit(r)
    \/ \E r \in Reqs, token \in Tokens, id \in AllIds : StartAcquire(r, token, id)
    \/ \E r \in Reqs : AcqGet(r)
    \/ \E r \in Reqs : AcqCommit(r)
    \/ \E r \in Reqs : AcqRecheck(r)
    \/ \E r \in Reqs, token \in Tokens, id \in AllIds : StartRelease(r, token, id)
    \/ \E r \in Reqs : RelGet(r)
    \/ \E r \in Reqs : RelCommit(r)
    \/ \E r \in Reqs : Refresh(r)
    \/ \E r \in Reqs : Finish(r)

Spec == Init /\ [][Next]_vars

\* the lock protocol with its scheduling: the event loop resumes every
\* handler whose database statement has completed, so a request that got
\* past the gate runs on to its commit
LiveSpec ==
    /\ Spec
    /\ \A r \in Reqs :
          /\ WF_vars(AcqGet(r)) /\ WF_vars(AcqCommit(r))
          /\ WF_vars(RelGet(r)) /\ WF_vars(RelCommit(r))

\* the whole API: every route with every kind of input, the service being
\* started at any minute of the clock, which stands still while the
\* requests run
ApiInit ==
    /\ users = << >>
    /\ now \in Times
    /\ pc = [r \in Reqs |-> "idle"]
    /\ req = [r \in Reqs |-> NoReq]
    /\ sess = [r \in Reqs |-> EmptySession]
    /\ pend = [r \in Reqs |-> <<>>]
    /\ resp = [r \in Reqs |-> NoResp]
    /\ wrote = [r \in Reqs |-> "no"]
    /\ globals = << >>
    /\ app = Serving

ApiNext ==
    \/ \E r \in Reqs, user_data \in RegInputs : RequestValidationError(r, user_data)
    \/ \E r \in Reqs, user_data \in RegInputs, id \in Ids : StartRegister(r, user_data, id)
    \/ \E r \in Reqs : RegCommit(r)
    \/ \E r \in Reqs, user_data \in UserLogin : login(r, user_data)
    \/ \E r \in Reqs, token \in Credentials : get_current_user_info(r, token)
    \/ \E r \in Reqs, token \in Credentials : StartList(r, token)
    \/ \E r \in Reqs : get_users(r)
    \/ \E r \in Reqs, token \in Credentials, id \in AllIds : StartAcquire(r, token, id)
    \/ \E r \in Reqs : AcqGet(r)
    \/ \E r \in Reqs : AcqCommit(r)
    \/ \E r \in Reqs : AcqRecheck(r)
    \/ \E r \in Reqs, token \in Credentials, id \in AllIds : StartRelease(r, token, id)
    \/ \E r \in Reqs : RelGet(r)
    \/ \E r \in Reqs : RelCommit(r)
    \/ \E r \in Reqs : Refresh(r)
    \/ \E r \in Reqs : Finish(r)

ApiSpec == ApiInit /\ [][ApiNext]_vars

\* ------------------------------------------------ the token codec alone
\* the values of expires_delta an issuer passes: none, a zero timedelta, one
\* minute, and the longest one
MaxDelta == 2
Deltas == {None, <<0>>, <<1>>, <<MaxDelta>>}

\* the clock of the codec runs past the latest expiry
Horizon == MaxTime + ACCESS_TOKEN_EXPIRE_MINUTES + 1

\* one call of create_access_token waiting to be made
TokenCalls == [op : {"create_access_token"}, data : [sub : Logins],
               expires_delta : Deltas]
TokenInit ==
    /\ users = << >>
    /\ now = 1
    /\ pc = [r \in Reqs |-> "idle"]
    /\ \E q \in Reqs, call \in TokenCalls :
          req = [r \in Reqs |-> IF r = q THEN call ELSE NoReq]
    /\ sess = [r \in Reqs |-> EmptySession]
    /\ pend = [r \in Reqs |-> <<>>]
    /\ resp = [r \in Reqs |-> NoResp]
    /\ wrote = [r \in Reqs |-> "no"]
    /\ globals = << >>
    /\ app = Serving

\* the call, within the first MaxTime minutes: the token and the time it
\* was issued at
Issue(r) ==
    /\ pc[r] = "idle"
    /\ req[r].op = "create_access_token"
    /\ now \in Times
    /\ resp' = [resp EXCEPT ![r] =
          [status |-> 0, iat |-> now,
           access_token |-> create_access_token(req[r].data, req[r].expires_delta)]]
    /\ pc' = [pc EXCEPT ![r] = "issued"]
    /\ UNCHANGED <<users, now, req, sess, pend, wrote, globals, app>>

\* a minute passes, or the configured life of a token
Elapse(d) ==
    /\ now + d <= Horizon
    /\ now' = now + d
    /\ UNCHANGED <<users, pc, req, sess, pend, resp, wrote, globals, app>>

\* the token comes back and is decoded, signature intact
Decode(r) ==
    /\ pc[r] = "issued"
    /\ resp' = [resp EXCEPT ![r] =
          [status |-> 0, iat |-> @.iat, access_token |-> @.access_token,
           at |-> now, token_data |-> decode_access_token(@.access_token)]]
    /\ pc' = [pc EXCEPT ![r] = "decoded"]
    /\ UNCHANGED <<users, now, req, sess, pend, wrote, globals, app>>

TokenNext ==
    \/ \E r \in Reqs : Issue(r)
    \/ \E d \in {1, ACCESS_TOKEN_EXPIRE_MINUTES} : Elapse(d)
    \/ \E r \in Reqs : Decode(r)

TokenSpec == TokenInit /\ [][TokenNext]_vars

\* ------------------------------------- app/database.py and main.lifespan
\* the module app.database as a call sees and leaves it: its namespace and,
\* as history, the numbers of engines and session factories created so far
Module ==
    [globals |-> globals, engines |-> app.engines,
     session_makers |-> app.session_makers]

\* the outcome of a call: the exception raised ("" for none), the value
\* returned and the module after the call
Raise(e, m) == [raised |-> e, value |-> None, m |-> m]
Return(v, m) == [raised |-> "", value |-> v, m |-> m]

\* init_engine: `global engine; if engine is None:` reads the name engine,
\* which raises NameError while the module has no binding for it
init_engine(m) ==
    IF "engine" \notin DOMAIN m.globals THEN Raise("NameError", m)
    ELSE IF m.globals["engine"] = None
    THEN LET engine == <<[engine |-> m.engines + 1]>>
         IN  Return(engine, [m EXCEPT !.globals["engine"] = engine,
                                      !.engines = @ + 1])
    ELSE Return(m.globals["engine"], m)

\* init_session_maker: the same pattern around the name async_session_maker,
\* with init_engine() called for the factory's bind
init_session_maker(m) ==
    IF "async_session_maker" \notin DOMAIN m.globals THEN Raise("NameError", m)
    ELSE IF m.globals["async_session_maker"] = None
    THEN LET e == init_engine(m)
             async_session_maker ==
                 <<[sessionmaker |-> e.m.session_makers + 1, bind |-> e.value]>>
         IN  IF e.raised # "" THEN Raise(e.raised, e.m)
             ELSE Return(async_session_maker,
                         [e.m EXCEPT !.globals["async_session_maker"] =
                                         async_session_maker,
                                     !.session_makers = @ + 1])
    ELSE Return(m.globals["async_session_maker"], m)

\* init_db: init_engine(), then engine.begin() and create_all, which succeed
\* or fail as the store is reachable or not; the set of possible outcomes
init_db(m) ==
    LET e == init_engine(m)
    IN  IF e.raised # "" THEN {Raise(e.raised, e.m)}
        ELSE {Return(None, e.m), Raise("OSError", e.m)}

\* get_session up to its yield: init_session_maker(), then a session of the
\* factory
get_session(m) ==
    LET f == init_session_maker(m)
    IN  IF f.raised # "" THEN Raise(f.raised, f.m)
        ELSE Return(<<[session |-> f.value]>>, f.m)

\* the classes `except Exception` catches
Exception == {"NameError", "OSError"}

\* faulty variant of lifespan: init_db() is awaited outside try/except, so
\* what it raises ends the startup
lifespan_NoCatch ==
    /\ app.lifespan = "startup"
    /\ \E o \in init_db(Module) :
          /\ globals' = o.m.globals
          /\ app' = [app EXCEPT
                !.engines = o.m.engines,
                !.session_makers = o.m.session_makers,
                !.lifespan = IF o.raised = "" THEN "running" ELSE "failed"]
    /\ UNCHANGED <<users, now, pc, req, sess, pend, resp, wrote>>

\* main.lifespan up to its yield: await init_db() inside try, what it raises
\* is printed by `except Exception`, then the application starts
lifespan ==
    /\ app.lifespan = "startup"
    /\ \E o \in init_db(Module) :
          /\ globals' = o.m.globals
          /\ app' = [app EXCEPT
                !.engines = o.m.engines,
                !.session_makers = o.m.session_makers,
                !.log = IF o.raised \in Exception
                        THEN Append(@, <<"Database init skipped", o.raised>>)
                        ELSE @,
                !.lifespan = IF o.raised = "" \/ o.raised \in Exception
                             THEN "running" ELSE "failed"]
    /\ UNCHANGED <<users, now, pc, req, sess, pend, resp, wrote>>

\* the requests sent to the process once it runs: one per route, with bodies
\* that validate
Requests ==
    {[op |-> "register", data |-> d] : d \in RegData}
        \cup {[op |-> "login", data |-> d] : d \in UserLogin}
        \cup {[op |-> "me", token |-> t] :
                 t \in Tokens \cup ForgedTokens \cup {NoCredentials}}
        \cup {[op |-> "list"]}
        \cup {[op |-> o, user_id |-> FakeId] : o \in {"acquire", "release"}}

\* a request reaches its route and FastAPI resolves the route's
\* dependencies: HTTPBearer first for /users/me, Depends(get_session) first
\* for the other routes; an exception of get_session is caught by nobody and
\* the request is answered 500
solve_dependencies(r, request) ==
    /\ pc[r] = "idle"
    /\ app.lifespan = "running" /\ ~app.dependency_overrides
    /\ IF request.op = "me" /\ request.token = NoCredentials
       THEN /\ resp' = [resp EXCEPT ![r] = not_authenticated]
            /\ pc' = [pc EXCEPT ![r] = "done"]
            /\ UNCHANGED <<globals, app>>
       ELSE LET session == get_session(Module)
            IN  /\ globals' = session.m.globals
                /\ app' = [app EXCEPT
                      !.engines = session.m.engines,
                      !.session_makers = session.m.session_makers]
                /\ IF session.raised # ""
                   THEN /\ resp' = [resp EXCEPT ![r] = internal_server_error]
                        /\ pc' = [pc EXCEPT ![r] = "done"]
                   ELSE /\ resp' = resp
                        /\ pc' = [pc EXCEPT ![r] = "in_handler"]
    /\ req' = [req EXCEPT ![r] = request]
    /\ UNCHANGED <<users, now, sess, pend, wrote>>

\* the process as `uvicorn app.main:app` starts it: app.database freshly
\* loaded, no dependency overridden, lifespan about to run
BootInit ==
    /\ users = << >>
    /\ now = 1
    /\ pc = [r \in Reqs |-> "idle"]
    /\ req = [r \in Reqs |-> NoReq]
    /\ sess = [r \in Reqs |-> EmptySession]
    /\ pend = [r \in Reqs |-> <<>>]
    /\ resp = [r \in Reqs |-> NoResp]
    /\ wrote = [r \in Reqs |-> "no"]
    /\ globals = << >>
    /\ app = [lifespan |-> "startup", log |-> <<>>,
              dependency_overrides |-> FALSE,
              engines |-> 0, session_makers |-> 0]

BootNext ==
    \/ lifespan
    \/ \E r \in Reqs, request \in Requests : solve_dependencies(r, request)
    \/ \E r \in Reqs : Finish(r)

BootSpec == BootInit /\ [][BootNext]_vars

TypeOK ==
    /\ now \in Times
    /\ DOMAIN users \subseteq Ids
    /\ \A i \in DOMAIN users :
          /\ users[i].id = i
          /\ users[i].env \in Environment /\ users[i].domain \in DomainType
          /\ users[i].locktime \in {NULL} \cup Times
    /\ \A r \in Reqs : wrote[r] \in {"no", "insert", "free", "locked"}

\* ===================================================================
\* Claims
\* ===================================================================
Done(r, op) == pc[r] = "done" /\ req[r].op = op
Authenticated(r) == resp[r].status \notin {401, 403, 500}
Target(r) == req[r].user_id

\* C1: lock mutual exclusion.  Two acquire requests for the same account
\* that both answer 200 each took the account when it was FREE: none of
\* them succeeded on an account that the other one (or anyone) still held.
C1_MutualExclusion ==
    \A r, q \in Reqs :
        (/\ r # q
         /\ Done(r, "acquire") /\ Done(q, "acquire")
         /\ Target(r) = Target(q)
         /\ resp[r].status = 200 /\ resp[q].status = 200)
        => (wrote[r] = "free" /\ wrote[q] = "free")

\* C2: acquire is an atomic conditional update.  The commit of an acquire
\* writes locktime only when the stored locktime is NULL at that instant.
C2_AtomicConditionalUpdate ==
    [][\A r \in Reqs :
         (pc[r] = "acq_commit" /\ pc'[r] = "acq_refresh")
         => users[Target(r)].locktime = NULL]_vars

\* C3: an authenticated acquire ends 404 exactly when the id names no
\* account, ends 423 only after it saw the account LOCKED, and otherwise
\* ends 200 having moved the account from FREE to LOCKED.
C3_AcquireOutcomes ==
    \A r \in Reqs :
        (Done(r, "acquire") /\ Authenticated(r))
        => /\ resp[r].status \in {200, 404, 423}
           /\ (resp[r].status = 404) <=> ~Exists(Target(r))
           /\ resp[r].status = 423
                  => /\ sess[r][Target(r)] # <<>>
                     /\ sess[r][Target(r)][1].locktime # NULL
           /\ resp[r].status = 200 => wrote[r] = "free"

\* C4: a failed acquire changes nothing.  The lookups of acquire_lock and of
\* the router leave the table as it is, and a request that ends 404 or 423
\* has committed nothing.
C4_FailedAcquireChangesNothing ==
    [][\A r \in Reqs :
         /\ (pc[r] \in {"acq_get", "acq_recheck"} /\ pc'[r] # pc[r])
                => users' = users
         /\ (Done(r, "acquire") /\ resp[r].status \in {404, 423})
                => wrote[r] = "no"]_vars

\* an acquire answered 423 while the account keeps the holder's timestamp
C4_Witness ==
    \E r \in Reqs :
        /\ Done(r, "acquire") /\ resp[r].status = 423
        /\ users[Target(r)].locktime # NULL

\* C5: release is unconditional.  When a release commits, the account is
\* FREE in the table, whatever it was before.
C5_ReleaseLeavesFree ==
    [][\A r \in Reqs :
         (pc[r] = "rel_commit" /\ pc'[r] = "rel_refresh")
         => users'[Target(r)].locktime = NULL]_vars

\* C6: an authenticated release ends 404 exactly when the id names no
\* account, and then it has written nothing; otherwise it ends 200.  It
\* never ends 423.
C6_ReleaseOutcomes ==
    \A r \in Reqs :
        (Done(r, "release") /\ Authenticated(r))
        => /\ resp[r].status \in {200, 404}
           /\ (resp[r].status = 404) <=> ~Exists(Target(r))
           /\ resp[r].status = 404 => wrote[r] = "no"

\* a release of an unknown id answered 404 next to a release of a FREE
\* account answered 200 without an UPDATE
C6_Witness ==
    \E r, q \in Reqs :
        /\ Done(r, "release") /\ resp[r].status = 404
        /\ Done(q, "release") /\ resp[q].status = 200 /\ wrote[q] = "no"

\* C7: every 200 answer of acquire carries the account with locktime set.
C7_AcquireResponseLocked ==
    \A r \in Reqs :
        (Done(r, "acquire") /\ resp[r].status = 200)
        => resp[r].body.locktime # NULL

\* C8: every 200 answer of release carries the account with locktime null.
C8_ReleaseResponseFree ==
    \A r \in Reqs :
        (Done(r, "release") /\ resp[r].status = 200)
        => resp[r].body.locktime = NULL

\* C9: login uniqueness.  In every reachable state no two accounts have the
\* same login.
C9_LoginUnique ==
    \A i, j \in DOMAIN users : users[i].login = users[j].login => i = j

\* two registrations of one login in flight together: one has inserted its
\* row, the other one was refused
C9_Witness ==
    \E r, q \in Reqs :
        /\ r # q
        /\ req[r].op = "register" /\ req[q].op = "register"
        /\ req[r].data.login = req[q].data.login
        /\ pc[r] = "reg_refresh" /\ wrote[r] = "insert"
        /\ pc[q] = "done" /\ resp[q].status = 400

\* C10: a registration whose login is taken when its INSERT runs is answered
\* 400 with the duplicate-login detail, and the table is left as it was.
C10_DuplicateRegistration ==
    [][\A r \in Reqs :
         (pc[r] = "reg_commit" /\ pc'[r] # "reg_commit"
            /\ LoginTaken(req[r].data.login))
         => /\ users' = users
            /\ resp'[r] = [status |-> 400,
                           detail |-> "User with this email already exists"]]_vars

\* a refused registration while the account of that login is LOCKED
C10_Witness ==
    \E r \in Reqs :
        /\ Done(r, "register") /\ resp[r].status = 400
        /\ \E i \in DOMAIN users :
              /\ users[i].login = req[r].data.login
              /\ users[i].locktime # NULL

\* C11: every account is FREE at creation.  A registration that commits
\* inserts exactly one row, with locktime NULL, and is the one answered 201;
\* a locktime leaves NULL only in the commit of an acquire of that account,
\* and that acquire is answered 200.
C11_FreeAtCreation ==
    [][/\ \A r \in Reqs :
            /\ (pc[r] = "reg_commit" /\ pc'[r] = "reg_refresh")
                  => /\ req[r].id \notin DOMAIN users
                     /\ DOMAIN users' = DOMAIN users \cup {req[r].id}
                     /\ users'[req[r].id].locktime = NULL
                     /\ \A i \in DOMAIN users : users'[i] = users[i]
            /\ (Done(r, "register") /\ resp[r].status = 201)
                  => wrote[r] = "insert"
            /\ (pc[r] = "acq_refresh" /\ pc'[r] = "done")
                  => resp'[r].status = 200
       /\ \A i \in DOMAIN users' :
            (/\ i \in DOMAIN users => users[i].locktime = NULL
             /\ users'[i].locktime # NULL)
            => \E r \in Reqs :
                  /\ pc[r] = "acq_commit" /\ pc'[r] = "acq_refresh"
                  /\ Target(r) = i /\ i \in DOMAIN users]_vars

\* a registration answered 201 whose account is still FREE while the first
\* acquire of it is about to commit
C11_Witness ==
    \E r, q \in Reqs :
        /\ Done(r, "register") /\ resp[r].status = 201
        /\ users[req[r].id].locktime = NULL
        /\ pc[q] = "acq_commit" /\ Target(q) = req[r].id

\* C12: credential round trip.  While a registration answered 201 is held,
\* authenticate_user with its login and password returns the account with
\* the id of that answer, and with any other password returns nothing; a
\* login without account authenticates with no password.  A login request
\* is answered 200 with a bearer token for its login exactly when, as it
\* runs, an account has that login and the hash of that password, and is
\* answered 401 otherwise.
C12_CredentialRoundTrip ==
    [][/\ \A r \in Reqs :
            (Done(r, "register") /\ resp[r].status = 201)
            => /\ authenticate_user(req[r].data.login, req[r].data.password) # <<>>
               /\ authenticate_user(req[r].data.login, req[r].data.password)[1].id
                      = resp[r].body.id
               /\ \A p \in LoginPasswords \ {req[r].data.password} :
                      authenticate_user(req[r].data.login, p) = <<>>
       /\ \A l \in Logins, p \in LoginPasswords :
            ~LoginTaken(l) => authenticate_user(l, p) = <<>>
       /\ \A r \in Reqs :
            (pc[r] = "idle" /\ pc'[r] = "done" /\ req'[r].op = "login")
            => IF \E i \in DOMAIN users :
                     /\ users[i].login = req'[r].data.login
                     /\ users[i].password = hash_password(req'[r].data.password)
               THEN /\ resp'[r].status = 200
                    /\ resp'[r].body.token_type = "bearer"
                    /\ resp'[r].body.access_token.sub = req'[r].data.login
               ELSE resp'[r].status = 401]_vars

\* the answer 201 of a registration is held while a login for its account,
\* by now LOCKED, is refused for a wrong password
C12_Witness ==
    \E r, q \in Reqs :
        /\ Done(r, "register") /\ resp[r].status = 201
        /\ Done(q, "login") /\ resp[q].status = 401
        /\ req[q].data.login = req[r].data.login
        /\ users[resp[r].body.id].locktime # NULL

\* C13: token gate.  A token that a login answer carries for login L is, at
\* every later moment of the run and whatever acquire and release did to the
\* account since, resolved by get_current_user to the one account with
\* login L: /users/me answers it with that account, and acquire and release
\* let the request through to their handlers.
C13_TokenGate ==
    [][/\ \A token \in Issued :
            /\ get_current_user(token) # <<>>
            /\ get_current_user(token)[1].login = token.sub
       /\ \A r \in Reqs :
            (Done(r, "me") /\ req[r].token \in Issued)
            => /\ resp[r].status = 200
               /\ resp[r].body.login = req[r].token.sub
               /\ users[resp[r].body.id].login = req[r].token.sub
       /\ \A r \in Reqs, token \in Issued, id \in AllIds :
            /\ StartAcquire(r, token, id) => pc'[r] = "acq_get"
            /\ StartRelease(r, token, id) => pc'[r] = "rel_get"]_vars

\* /users/me answered for the token of a login answer that is held, with
\* the account of that login LOCKED
C13_Witness ==
    \E r \in Reqs :
        /\ Done(r, "me") /\ req[r].token \in Issued
        /\ resp[r].status = 200
        /\ resp[r].body.locktime # NULL

\* C14: uniform rejection at the auth gate.  A request to /users/me, acquire
\* or release whose token has an altered signature, is expired, has no
\* subject, or is valid with a subject that no account has, is answered
\* with credentials_exception, the same answer for each of the four.
C14_UniformRejection ==
    [][\A r \in Reqs, token \in Credentials \ {NoCredentials} :
         (/\ \/ ~token.sig
             \/ token.exp < now
             \/ token.sub = NoSub
             \/ ~LoginTaken(token.sub)
          /\ \/ get_current_user_info(r, token)
             \/ \E id \in AllIds : StartAcquire(r, token, id)
             \/ \E id \in AllIds : StartRelease(r, token, id))
         => resp'[r] = credentials_exception]_vars

\* C15: the auth gate protects /users/me, the list, acquire and release.  A
\* request to one of them without token, or with a token that does not
\* resolve to an account, ends there with 401 or 403 and leaves the table
\* and the pending statements as they are; a request that gets past the
\* gate carried a token that resolves to an existing account; and a
\* locktime changes only in the commit of a request that got past the gate.
C15_GateProtects ==
    [][/\ \A r \in Reqs, token \in Credentials :
            LET step == \/ get_current_user_info(r, token)
                        \/ StartList(r, token)
                        \/ \E id \in AllIds : StartAcquire(r, token, id)
                        \/ \E id \in AllIds : StartRelease(r, token, id)
                resolves == /\ token # NoCredentials
                            /\ get_current_user(token) # <<>>
                            /\ get_current_user(token) # ValidationError
                            /\ get_current_user(token)[1].id \in DOMAIN users
            IN  /\ (step /\ ~resolves)
                    => /\ pc'[r] = "done" /\ resp'[r].status \in {401, 403}
                       /\ users' = users /\ pend' = pend
                /\ (step /\ (pc'[r] # "done" \/ resp'[r].status = 200))
                    => resolves
       /\ \A i \in DOMAIN users :
            users'[i].locktime # users[i].locktime
            => \E r \in Reqs :
                  /\ pc[r] \in {"acq_commit", "rel_commit"}
                  /\ pc'[r] # pc[r] /\ Target(r) = i
       /\ \A r \in Reqs :
            pc'[r] \in {"acq_commit", "rel_commit"}
            => pc[r] \in {"acq_get", "rel_get", "acq_commit", "rel_commit"}
       /\ \A r \in Reqs :
            (pc'[r] \in {"acq_get", "rel_get", "list_all"} /\ pc'[r] # pc[r])
            => pc[r] = "idle"]_vars

\* C16: locktime is the only mutable field.  No step removes an account or
\* changes a field other than locktime of an account that exists; the
\* account of a registration answer that is held has the id, created_at,
\* login, project_id, env and domain of that answer and the hash of its
\* password; and the commit of an acquire or a release of account A leaves
\* the set of accounts and every account other than A as they are.
C16_OnlyLocktimeMutable ==
    [][/\ \A i \in DOMAIN users :
            /\ i \in DOMAIN users'
            /\ [users'[i] EXCEPT !.locktime = users[i].locktime] = users[i]
       /\ \A r \in Reqs :
            (Done(r, "register") /\ resp[r].status = 201)
            => /\ [UserResponse(users[resp[r].body.id])
                      EXCEPT !.locktime = resp[r].body.locktime] = resp[r].body
               /\ users[resp[r].body.id].password
                      = hash_password(req[r].data.password)
       /\ \A r \in Reqs :
            (pc[r] \in {"acq_commit", "rel_commit"} /\ pc'[r] # pc[r])
            => /\ DOMAIN users' = DOMAIN users
               /\ \A j \in DOMAIN users \ {Target(r)} : users'[j] = users[j]]_vars

\* a release has cleared the lock of one account while another account
\* keeps its lock
C16_Witness ==
    \E r \in Reqs :
        /\ Done(r, "release") /\ wrote[r] = "locked"
        /\ users[Target(r)].locktime = NULL
        /\ \E j \in DOMAIN users \ {Target(r)} : users[j].locktime # NULL

\* C17: the credential hash is never exposed.  Every answer of register,
\* /users/me, acquire and release that has a body, and every entry of a
\* list answer, has exactly the fields id, created_at, login, project_id,
\* env, domain and locktime; the body of a login answer has exactly
\* access_token and token_type, and the token exactly sub, exp and the
\* signature; an answer without body has a status, a detail and at most
\* headers.
C17_HashNeverExposed ==
    \A r \in Reqs :
        LET fields == {"id", "created_at", "login", "project_id", "env",
                       "domain", "locktime"}
        IN  IF "body" \notin DOMAIN resp[r]
            THEN DOMAIN resp[r] \subseteq {"status", "detail", "headers"}
            ELSE /\ DOMAIN resp[r] = {"status", "body"}
                 /\ IF req[r].op = "login"
                    THEN /\ DOMAIN resp[r].body = {"access_token", "token_type"}
                         /\ DOMAIN resp[r].body.access_token = {"sub", "exp", "sig"}
                         /\ resp[r].body.access_token.sub = req[r].data.login
                    ELSE IF req[r].op = "list"
                    THEN \A k \in DOMAIN resp[r].body :
                            DOMAIN resp[r].body[k] = fields
                    ELSE DOMAIN resp[r].body = fields

\* a list answer with the entries of two accounts next to a login answer
C17_Witness ==
    \E r, q \in Reqs :
        /\ Done(r, "list") /\ resp[r].status = 200 /\ Len(resp[r].body) = 2
        /\ Done(q, "login") /\ resp[q].status = 200

\* C18: malformed registration input is rejected before the store.  A body
\* whose login is no e-mail address, whose password has fewer than 8
\* characters, or whose env or domain is outside the enumerated values is
\* answered 422 at once: nothing is staged and the table is unchanged.  Every
\* account, and every row staged for insertion, has an e-mail login and env
\* and domain within the enumerated values.
C18_MalformedRegistrationRejected ==
    [][/\ \A r \in Reqs, user_data \in RegInputs :
            (/\ \/ user_data.login \notin EmailStr
                \/ Len(user_data.password) < 8
                \/ user_data.env \notin {"prod", "preprod", "stage"}
                \/ user_data.domain \notin {"canary", "regular"}
             /\ \/ RequestValidationError(r, user_data)
                \/ \E id \in Ids : StartRegister(r, user_data, id))
            => /\ pc'[r] = "done" /\ resp'[r].status = 422
               /\ users' = users /\ pend' = pend
       /\ \A i \in DOMAIN users :
            /\ users[i].login \in EmailStr
            /\ users[i].env \in {"prod", "preprod", "stage"}
            /\ users[i].domain \in {"canary", "regular"}
       /\ \A r \in Reqs :
            (pend[r] # <<>> /\ pend[r][1].op = "insert")
            => /\ pend[r][1].row.login \in EmailStr
               /\ pend[r][1].row.env \in {"prod", "preprod", "stage"}
               /\ pend[r][1].row.domain \in {"canary", "regular"}]_vars

\* a body with an unknown env and one with a short password, both answered
\* 422, while the login they name has no account
C18_Witness ==
    \E r, q \in Reqs :
        /\ Done(r, "register") /\ resp[r].status = 422
        /\ req[r].data.env \notin Environment
        /\ Done(q, "register") /\ resp[q].status = 422
        /\ Len(req[q].data.password) < min_length
        /\ ~LoginTaken(req[r].data.login)

\* C19: token expiry.  A token issued without expires_delta expires the
\* configured 30 minutes after it was issued, a token issued with an
\* expires_delta, a zero one included, expires that long after it was
\* issued; decoding it after its expiry gives nothing and decoding it
\* before its expiry gives the subject it was issued for.
C19_TokenExpiry ==
    \A r \in Reqs :
        /\ pc[r] \in {"issued", "decoded"}
              => resp[r].access_token.exp =
                    resp[r].iat + (IF req[r].expires_delta = None
                                   THEN 30 ELSE req[r].expires_delta[1])
        /\ pc[r] = "decoded"
              => /\ resp[r].at > resp[r].access_token.exp
                       => resp[r].token_data = <<>>
                 /\ resp[r].at < resp[r].access_token.exp
                       => resp[r].token_data = <<[login |-> req[r].data.sub]>>

\* the request r has just passed the gate: what its session holds of account
\* i, if anything, is what the table holds
Arrived(r, i) ==
    /\ req[r].user_id = i /\ i \in DOMAIN users
    /\ sess[r][i] = <<>> \/ sess[r][i] = <<users[i]>>

\* C20: the lock machine has no terminal state.  From every state the run
\* can reach, a release request for an existing account that arrives at its
\* handler leads to that account being FREE, and an acquire request for it
\* that arrives leads to the account being LOCKED, however often the
\* account was locked and released before; every UPDATE of a release clears
\* the lock and every commit of an acquire stamps the account with a time
\* of that acquire.
C20_NoTerminalState ==
    /\ \A r \in Reqs, i \in Ids :
          /\ (pc[r] = "rel_get" /\ Arrived(r, i))
                ~> (i \in DOMAIN users /\ users[i].locktime = NULL)
          /\ (pc[r] = "acq_get" /\ Arrived(r, i))
                ~> (i \in DOMAIN users /\ users[i].locktime # NULL)
    /\ [][\A r \in Reqs :
            /\ (pc[r] = "rel_commit" /\ pc'[r] = "rel_refresh"
                  /\ pend[r] # <<>>)
                => users'[Target(r)].locktime = NULL
            /\ (pc[r] = "acq_commit" /\ pc'[r] = "acq_refresh")
                => /\ users'[Target(r)].locktime # NULL
                   /\ users'[Target(r)].locktime <= now]_vars

\* an acquire that took the account FREE and is answered 200 with the new
\* timestamp, after a release that had cleared an earlier lock of it
C20_Witness ==
    \E r, q \in Reqs :
        /\ Done(q, "release") /\ wrote[q] = "locked"
        /\ Done(r, "acquire") /\ wrote[r] = "free" /\ Target(r) = Target(q)
        /\ resp[r].status = 200 /\ resp[r].body.locktime # NULL
        /\ resp[q].status = 200 /\ resp[q].body.locktime = NULL
        /\ users[Target(r)].locktime = resp[r].body.locktime

\* C21: accounts are never removed and listing is complete.  No step takes
\* an account out of the table, and an account enters it only in the commit
\* of a registration, the one answered 201; the answer of an authenticated
\* list request has one entry for every account the table holds when its
\* SELECT runs, no entry twice and none for anything else, each with the
\* id, login, created_at, project_id, env and domain of its account.
C21_ListComplete ==
    [][/\ DOMAIN users \subseteq DOMAIN users'
       /\ \A i \in DOMAIN users' \ DOMAIN users :
            \E r \in Reqs :
               /\ pc[r] = "reg_commit" /\ pc'[r] = "reg_refresh"
               /\ req[r].id = i
       /\ \A r \in Reqs :
            (pc[r] = "list_all" /\ pc'[r] = "done")
            => /\ resp'[r].status = 200
               /\ Len(resp'[r].body) = Cardinality(DOMAIN users)
               /\ {resp'[r].body[k].id : k \in DOMAIN resp'[r].body}
                     = DOMAIN users
               /\ \A k \in DOMAIN resp'[r].body :
                     [resp'[r].body[k] EXCEPT !.locktime = NULL] =
                        [UserResponse(users[resp'[r].body[k].id])
                            EXCEPT !.locktime = NULL]]_vars

\* a list answered with the one account there was, held while a second
\* registration has been answered 201
C21_Witness ==
    \E r, q \in Reqs :
        /\ Done(r, "list") /\ resp[r].status = 200 /\ Len(resp[r].body) = 1
        /\ Done(q, "register") /\ resp[q].status = 201
        /\ resp[q].body.id # resp[r].body[1].id

\* C22: bad credentials are rejected uniformly by login.  A login request
\* for a login without account and a login request with a wrong password
\* for the login of an account are answered alike: status 401, the detail
\* "Incorrect email or password" and the header WWW-Authenticate: Bearer,
\* nothing else; the step leaves the table and the pending statements as
\* they are; and two refused logins that are held have equal answers.
C22_UniformLoginRejection ==
    [][\A r \in Reqs, user_data \in UserLogin :
         (/\ login(r, user_data)
          /\ \/ ~LoginTaken(user_data.login)
             \/ \E i \in DOMAIN users :
                   /\ users[i].login = user_data.login
                   /\ users[i].password # hash_password(user_data.password))
         => /\ resp'[r] = [status |-> 401,
                           detail |-> "Incorrect email or password",
                           headers |-> <<"WWW-Authenticate", "Bearer">>]
            /\ users' = users /\ pend' = pend
            /\ \A q \in Reqs :
                  (Done(q, "login") /\ resp[q].status # 200)
                  => resp'[r] = resp[q]]_vars

\* a login refused for a login without account next to a login refused for
\* a wrong password of an account
C22_Witness ==
    \E r, q \in Reqs :
        /\ Done(r, "login") /\ ~LoginTaken(req[r].data.login)
        /\ Done(q, "login") /\ LoginTaken(req[q].data.login)
        /\ resp[q].status = 401 /\ resp[r] = resp[q]

\* C24: release is not bound to the holder.  An account records no owner
\* of its lock; a release request of any caller whose token resolves to an
\* account, its own or another one, is let through to release_lock for any
\* account named, whoever acquired it; an authenticated release of an
\* existing account is answered 200; and the UPDATE of a release clears the
\* lock without regard to the request that set it.
C24_ReleaseNotBoundToHolder ==
    [][/\ \A i \in DOMAIN users :
            DOMAIN users[i] = {"id", "created_at", "login", "password",
                               "project_id", "env", "domain", "locktime"}
       /\ \A r \in Reqs, token \in Tokens, id \in AllIds :
            (/\ pc[r] = "idle" /\ req'[r].op = "release"
             /\ get_current_user(token) # <<>>
             /\ StartRelease(r, token, id))
            => pc'[r] = "rel_get"
       /\ \A r \in Reqs :
            (Done(r, "release") /\ Authenticated(r) /\ Exists(Target(r)))
            => resp[r].status = 200
       /\ \A r \in Reqs :
            (pc[r] = "rel_commit" /\ pc'[r] = "rel_refresh" /\ pend[r] # <<>>)
            => /\ users[Target(r)].locktime # NULL
                  => wrote'[r] = "locked"
               /\ users'[Target(r)].locktime = NULL]_vars

\* the answer 200 of an acquire is held, with its timestamp, while the
\* account carries the later timestamp of another acquire answered 200,
\* which found the account FREE: a release has cleared the first lock
C24_Witness ==
    \E r, q \in Reqs :
        /\ r # q
        /\ Done(r, "acquire") /\ resp[r].status = 200 /\ wrote[r] = "free"
        /\ Done(q, "acquire") /\ resp[q].status = 200 /\ wrote[q] = "free"
        /\ Target(r) = Target(q)
        /\ resp[r].body.locktime # NULL
        /\ resp[r].body.locktime < resp[q].body.locktime
        /\ users[Target(q)].locktime = resp[q].body.locktime

\* the whole API under a running clock
ClockSpec == Init /\ [][Tick \/ ApiNext]_vars

\* C25: a lock is cleared only by release.  The locktime of a LOCKED account
\* becomes NULL only in the commit of a release request for that account; in
\* every other step (a minute passing, a token expiring with it, a login, a
\* registration, a list, /users/me, an acquire that fails or succeeds) a
\* LOCKED account stays LOCKED.
C25_ClearedOnlyByRelease ==
    [][\A i \in DOMAIN users :
         (users[i].locktime # NULL /\ users'[i].locktime = NULL)
         => \E r \in Reqs :
               /\ req[r].op = "release" /\ Target(r) = i
               /\ pc[r] = "rel_commit" /\ pc'[r] = "rel_refresh"]_vars

\* an account locked at minute 1 is still LOCKED with that timestamp at the
\* last minute, after the acquirer's token has expired, while a login is
\* answered and an acquire of it is refused with 423
C25_Witness ==
    \E r, q \in Reqs, i \in DOMAIN users :
        /\ users[i].locktime = 1 /\ now = MaxTime
        /\ Token("a@x.com", 1, TRUE).exp < now
        /\ Done(r, "login") /\ resp[r].status = 200
        /\ Done(q, "acquire") /\ resp[q].status = 423 /\ Target(q) = i

\* C26: read-only operations have no effect on the store.  Every step of a
\* login request, answered 200 or 401, of a /users/me request and of a list
\* request leaves every account as it is, whatever the other request in
\* flight is doing; such a request stages no statement and commits nothing.
C26_ReadOnly ==
    [][\A r \in Reqs :
         /\ (pc'[r] # pc[r]
                /\ \/ req[r].op \in {"login", "me", "list"}
                   \/ req'[r].op \in {"login", "me", "list"})
            => /\ users' = users
               /\ pend' = pend /\ wrote' = wrote
         /\ req[r].op \in {"login", "me", "list"}
            => pend[r] = <<>> /\ wrote[r] = "no"]_vars

\* a list request past the gate runs its SELECT while the UPDATE of an
\* acquire is staged in the other session, the account being LOCKED already
C26_Witness ==
    \E r, q \in Reqs :
        /\ pc[r] = "list_all"
        /\ pc[q] = "acq_commit" /\ pend[q] # <<>>
        /\ users[Target(q)].locktime # NULL

\* C23: startup soft-fail.  Whatever init_db raises at startup is caught and
\* reported by lifespan: the startup step ends with the application running,
\* never with a failed start, and when init_db cannot succeed the report of
\* its failure is in the log; once running, the process takes requests, and
\* every request it takes is answered with an HTTP status or handed to its
\* handler.
C23_StartupSoftFail ==
    [][/\ app.lifespan # "failed" /\ app'.lifespan # "failed"
       /\ (app.lifespan = "startup" /\ app'.lifespan # "startup")
            => /\ app'.lifespan = "running"
               /\ (\A o \in init_db(Module) : o.raised # "")
                    => /\ Len(app'.log) = 1
                       /\ app'.log[1][1] = "Database init skipped"
                       /\ \E o \in init_db(Module) : app'.log[1][2] = o.raised
       /\ \A r \in Reqs :
            (app.lifespan = "running" /\ pc[r] = "idle")
            => ENABLED (\E request \in Requests : solve_dependencies(r, request))
       /\ \A r \in Reqs, request \in Requests :
            solve_dependencies(r, request)
            => \/ pc'[r] = "done" /\ resp'[r].status \in {403, 500}
               \/ pc'[r] = "in_handler"]_vars

\* the failed initialisation has been reported and the process is running:
\* one request has been answered 403, another one 500
C23_Witness ==
    \E r, q \in Reqs :
        /\ app.lifespan = "running" /\ app.log # <<>>
        /\ Done(r, "me") /\ resp[r].status = 403
        /\ Done(q, "login") /\ resp[q].status = 500

\* C27: lazy store handle.  In a process started from a freshly loaded
\* app.database, the call of init_db at startup has created the engine
\* without error, no call of init_engine has raised NameError, every request
\* to a route that depends on get_session got its session (none was
\* answered 500 for it), and at most one engine and one session factory
\* were created.
C27_LazyHandle ==
    /\ app.lifespan = "running"
          => /\ "engine" \in DOMAIN globals
             /\ globals["engine"] # None
             /\ app.engines = 1
    /\ \A k \in DOMAIN app.log : app.log[k][2] # "NameError"
    /\ \A r \in Reqs :
          (pc[r] = "done" /\ req[r].op \in {"register", "login", "list",
                                            "acquire", "release"})
          => resp[r].status # 500
    /\ app.engines <= 1 /\ app.session_makers <= 1

====
